---- MODULE Spec2Model ----
(***************************************************************************)
(* Model of pyingest.py: the run of main() over a configuration: the       *)
(* pre-ingest statements, the files of the list in order (load_file and    *)
(* the two readers load_json and load_csv), the post-ingest statements.    *)
(* The calls the program makes on its collaborators (transport, database   *)
(* session, standard output) are recorded in the history variable log.     *)
(***************************************************************************)
EXTENDS Integers, Sequences, FiniteSets, TLC

\* ---------------------------------------------------------------- bounds
MaxFiles == 2      \* files of config['files']
MaxStmts == 2      \* statements of config['pre_ingest'] / config['post_ingest']
MaxRecs == 3       \* top-level array elements / data lines of one file
MaxChunk == 2      \* largest declared chunk_size
MaxSkip == 2       \* largest declared skip_records

\* ------------------------------------------------------ program constants
DefaultChunkSize == 1000
DefaultSkipRecords == 0
supported_compression_formats == {"gzip", "zip", "none"}

VARIABLES
    pc,         \* position of the run: in main, load_file, load_json, load_csv
    config,     \* the configuration: the length of config['files']
    statements, \* pre_ingest's / post_ingest's statements: the length of the list
    stmt_i,     \* how many statements of that list have been run
    file_i,     \* index in config['files'] of the file being processed
    file,       \* load_file's argument
    reader,     \* the reader load_file called for it: "csv", "json" or "none"
    params,     \* the dict returned by get_params
    openfile,   \* how file_handle opened the stream: "gzip", "zip" or "open"
    raw,        \* what file_handle had in hand: its `path`, its buffer, the archive
    source,     \* the content behind openfile: array elements or data lines
    rd,         \* how many elements / lines of source have been consumed
    rec_num,    \* load_json's rec_num
    rows,       \* load_json's rows / load_csv's current chunk
    inflight,   \* batches handed to session.run whose consume() has not returned
    batches,    \* batches submitted for the current file, in order
    acked,      \* how many of them the store has acknowledged
    log,        \* calls made in the current phase (a statement list or a file)
    history     \* the phases main has finished, in order

vars == <<pc, config, statements, stmt_i, file_i, file, reader, params, openfile, raw, source,
          rd, rec_num, rows, inflight, batches, acked, log, history>>

\* ------------------------------------------------------------- utilities
Last(s) == s[Len(s)]

Min(a, b) == IF a < b THEN a ELSE b

RECURSIVE Concat(_)
Concat(ss) == IF ss = <<>> THEN <<>> ELSE Head(ss) \o Concat(Tail(ss))

RECURSIVE SeqsUpTo(_, _)
SeqsUpTo(S, n) ==
    IF n = 0 THEN {<<>>}
    ELSE LET shorter == SeqsUpTo(S, n - 1)
         IN  shorter \cup {Append(s, x) : s \in {t \in shorter : Len(t) = n - 1}, x \in S}

Event(op, f, n) == [op |-> op, f |-> f, n |-> n]

NoFile == [skip_file |-> FALSE, has_url |-> FALSE, suffixes |-> <<>>, type |-> "NA",
           has_cql |-> FALSE, skip_records |-> 0, chunk_size |-> 0, compression |-> "NA"]

NoParams == [skip_records |-> 0, compression |-> "none", chunk_size |-> 0]

NoRaw == [path |-> "NA", buffered |-> FALSE, archive |-> <<>>]

\* ---------------------------------------------------------------- inputs
\* What pathlib.Path(url).suffixes can return for the urls considered.
Suffixes == {<<>>, <<".csv">>, <<".json">>, <<".csv", ".json">>, <<".json", ".csv">>}

\* file.get('type'): "NA" when the key is absent (the code's own default).
Types == {"NA", "csv", "json", "xml"}

\* file.get('compression'): "NA" when absent, "lz4" stands for any unsupported value.
Compressions == {"NA", "gzip", "zip", "lz4"}

\* urlparse(url).scheme: an object of the store, a file url, a plain path.
Schemes == {"s3", "file", ""}

\* The names of the entries of the zip archives considered.
EntryNames == {"a.csv", "b.csv"}

\* Absent skip_records / chunk_size are 0: `x or d` treats None and 0 alike.
\* The files considered vary the keys one concern at a time around a plain
\* file: the keys load_file dispatches on, the keys the readers batch by,
\* the compression, and the presence of the required keys.
PlainFile ==
    [skip_file |-> FALSE, has_url |-> TRUE, suffixes |-> <<>>, type |-> "NA",
     has_cql |-> TRUE, skip_records |-> 0, chunk_size |-> 0, compression |-> "NA"]

FileSpecs ==
    {[PlainFile EXCEPT !.skip_file = k, !.suffixes = s, !.type = t] :
        k \in BOOLEAN, s \in Suffixes, t \in Types}
    \cup {[PlainFile EXCEPT !.skip_file = k, !.type = t, !.skip_records = n, !.chunk_size = c] :
        k \in BOOLEAN, t \in {"csv", "json"}, n \in 0..MaxSkip, c \in 0..MaxChunk}
    \cup {[PlainFile EXCEPT !.skip_file = k, !.type = t, !.compression = z] :
        k \in BOOLEAN, t \in {"csv", "json"}, z \in Compressions}
    \cup {[PlainFile EXCEPT !.skip_file = k, !.type = t, !.has_url = u, !.has_cql = q] :
        k \in BOOLEAN, t \in {"csv", "json"}, u \in BOOLEAN, q \in BOOLEAN}

\* A top-level element of a JSON array: an object or the literal null.
JsonKinds == {"obj", "null"}
\* A data line of a CSV file: as many fields as the header, or fewer.
CsvKinds == {"ok", "short"}

\* ------------------------------------------- JSON documents and ijson events
\* A Python value: t is its type; lit the digits of a number (integer part,
\* first fractional digit) or of its text; key a map key; items the
\* (key, value) pairs of a dict, in order.
PyVal(t, lit, key, items) == [t |-> t, lit |-> lit, key |-> key, items |-> items]
PyNone == PyVal("None", <<>>, "", <<>>)
PyKey(k) == PyVal("str", <<>>, k, <<>>)
PyDict(items) == PyVal("dict", <<>>, "", items)

\* A JSON number token as written in the file.
JsonNumber(int, frac) == [j |-> "number", lit |-> <<int, frac>>, items |-> <<>>]
JsonObject(items) == [j |-> "object", lit |-> <<>>, items |-> items]

\* The element at position p of the arrays considered:
\* {"a": p, "b": {"c": p.5}}, an integer and a decimal at two depths.
JsonElement(p) ==
    JsonObject(<< <<"a", JsonNumber(p, 0)>>,
                  <<"b", JsonObject(<< <<"c", JsonNumber(p, 5)>> >>)>> >>)

\* ijson.parse on a number token: an int for an integer literal, a
\* decimal.Decimal otherwise.
NumberValue(lit) ==
    IF lit[2] = 0 THEN PyVal("int", lit, "", <<>>) ELSE PyVal("Decimal", lit, "", <<>>)

IjsonEvent(prefix, event, value) == [prefix |-> prefix, event |-> event, value |-> value]

\* ijson.parse: the (prefix, event, value) triples of one document.
RECURSIVE parse(_, _)
RECURSIVE parse_members(_, _)
parse(doc, prefix) ==
    IF doc.j = "number"
    THEN << IjsonEvent(prefix, "number", NumberValue(doc.lit)) >>
    ELSE << IjsonEvent(prefix, "start_map", PyNone) >>
         \o parse_members(doc.items, prefix)
         \o << IjsonEvent(prefix, "end_map", PyNone) >>
parse_members(items, prefix) ==
    IF items = <<>> THEN <<>>
    ELSE << IjsonEvent(prefix, "map_key", PyKey(Head(items)[1])) >>
         \o parse(Head(items)[2], Append(prefix, Head(items)[1]))
         \o parse_members(Tail(items), prefix)

\* str(value) of a number: its text.
str(value) == PyVal("str", value.lit, "", <<>>)

ijson_decimal_as_float(events) ==
    [i \in 1..Len(events) |->
        IF events[i].event = "number"
        THEN IjsonEvent(events[i].prefix, events[i].event, str(events[i].value))
        ELSE events[i]]

\* ijson's ObjectBuilder: the value that starts at event i, and the index
\* of the first event after it.
RECURSIVE build(_, _)
RECURSIVE build_members(_, _, _)
build(events, i) ==
    IF events[i].event = "start_map"
    THEN build_members(events, i + 1, <<>>)
    ELSE [value |-> events[i].value, next |-> i + 1]
build_members(events, i, items) ==
    IF events[i].event = "end_map"
    THEN [value |-> PyDict(items), next |-> i + 1]
    ELSE LET member == build(events, i + 1)
         IN  build_members(events, member.next,
                           Append(items, <<events[i].value.key, member.value>>))

\* ijson.common.items(events, 'item'): the object built from the events of
\* one top-level array element.
items(events) == build(events, 1).value

\* The row load_json obtains for the element at position p of the array.
JsonRow(p) == items(ijson_decimal_as_float(parse(JsonElement(p), <<"item">>)))

\* Every number-derived leaf of a built value, at any depth.
RECURSIVE Leaves(_)
RECURSIVE LeavesOfItems(_)
Leaves(value) ==
    IF value.t = "dict" THEN LeavesOfItems(value.items) ELSE {value}
LeavesOfItems(its) ==
    IF its = <<>> THEN {} ELSE Leaves(Head(its)[2]) \cup LeavesOfItems(Tail(its))

\* ------------------------------------------------------------- CSV rows
\* The record pandas yields for data line p under names=header (two
\* columns, dtype=str): a line with fewer fields is padded with NaN, which
\* fillna(value="") turns into the empty string.
CsvRow(kind, p) ==
    PyDict(<< <<"id", PyVal("str", <<p, 0>>, "", <<>>)>>,
              <<"name", IF kind = "ok" THEN PyVal("str", <<p, 0>>, "", <<>>)
                        ELSE PyVal("str", <<>>, "", <<>>)>> >>)

\* A row of a batch: its value, and the file and position it was read from.
Record(f, p, value) == [file |-> f, pos |-> p, val |-> value]

\* ----------------------------------------------------------- load_file
\* The suffix tests of lines 48 and 50 in the other order.
Dispatch_json_first(f) ==
    IF f.type # "NA"
    THEN IF f.type = "csv" THEN "csv"
         ELSE IF f.type = "json" THEN "json"
         ELSE "none"
    ELSE IF \E i \in 1..Len(f.suffixes) : f.suffixes[i] = ".json" THEN "json"
         ELSE IF \E i \in 1..Len(f.suffixes) : f.suffixes[i] = ".csv" THEN "csv"
         ELSE "csv"

\* A declared type that is neither csv nor json read as CSV.
Dispatch_default_csv(f) ==
    IF f.type = "json" THEN "json"
    ELSE IF f.type # "NA" THEN "csv"
    ELSE IF \E i \in 1..Len(f.suffixes) : f.suffixes[i] = ".csv" THEN "csv"
         ELSE IF \E i \in 1..Len(f.suffixes) : f.suffixes[i] = ".json" THEN "json"
         ELSE "csv"

\* The reader load_file calls for a file that is not skipped.
Dispatch(f) ==
    IF f.type # "NA"
    THEN IF f.type = "csv" THEN "csv"
         ELSE IF f.type = "json" THEN "json"
         ELSE "none"
    ELSE IF \E i \in 1..Len(f.suffixes) : f.suffixes[i] = ".csv" THEN "csv"
         ELSE IF \E i \in 1..Len(f.suffixes) : f.suffixes[i] = ".json" THEN "json"
         ELSE "csv"

\* get_params: `file.get(k) or default` for the optional keys.
get_params(f) ==
    [skip_records |-> IF f.skip_records # 0 THEN f.skip_records ELSE DefaultSkipRecords,
     compression  |-> IF f.compression # "NA" THEN f.compression ELSE "none",
     chunk_size   |-> IF f.chunk_size # 0 THEN f.chunk_size ELSE DefaultChunkSize]

\* get_params lines 103-104: a compression that is not supported is printed.
Report(p, f) ==
    IF p.compression \notin supported_compression_formats
    THEN <<Event("unsupported compression", f, 0)>> ELSE <<>>

\* file_handle lines 163-169: `path` is the Body of the object for an s3
\* url, a string otherwise.
path(scheme) == IF scheme = "s3" THEN "Body" ELSE "str"

\* Every compression but the two supported wrappers taken for an archive.
file_handle_unwrapping(compression) ==
    IF compression = "none" THEN "open"
    ELSE IF compression = "gzip" THEN "gzip"
    ELSE "zip"

\* The wrapper file_handle puts around the raw stream (lines 170-182).
file_handle(compression) ==
    IF compression = "gzip" THEN "gzip"
    ELSE IF compression = "zip" THEN "zip"
    ELSE "open"

\* file_handle lines 174-177: a path that is no string is read in full
\* into a BytesIO buffer before the archive is opened.
buffered(p) == p # "str"

\* An entry of a zip archive: its name and its content.
Entry(filename, content) == [filename |-> filename, content |-> content]

\* The entries listed in the reverse order.
infolist_reversed(archive) == [i \in 1..Len(archive) |-> archive[Len(archive) + 1 - i]]

\* ZipFile.infolist(): the entries in the order of the archive's listing.
infolist(archive) == archive

\* ZipFile.open(filename): the content of the entry of that name.
zf_open(archive, filename) ==
    archive[CHOOSE i \in 1..Len(archive) : archive[i].filename = filename].content

\* The flag of line 32 never read.
skip_never(f) == FALSE

\* load_file line 32: file.get('skip_file') or False.
skip(f) == f.skip_file

\* The row put at the front of the list instead of its end.
append_front(rs, row) == <<row>> \o rs

\* load_json line 84: rows.append(row).
append(rs, row) == Append(rs, row)

\* What next(items, None) returns for an element of the array: None for
\* the literal null, the built object otherwise.
NextRow(element, p) == IF element = "null" THEN PyNone ELSE JsonRow(p)

\* Only the end of the array ends the loop: a None row is a row.
halt_never(row) == FALSE

\* load_json lines 79-80: a row that is None halts the loop.
halt(row) == row = PyNone

\* The comparison of line 83 taken one element too early.
PastSkipped_inclusive(n, p) == n >= p.skip_records

\* load_json line 83: the element is past the skipped ones.
PastSkipped(n, p) == n > p.skip_records

\* The comparison of line 85 taken one row too late.
ChunkFull_late(rs, p) == Len(rs) = p.chunk_size + 1

\* load_json line 85: the accumulated rows make a full chunk.
ChunkFull(rs, p) == Len(rs) = p.chunk_size

\* Lines with fewer fields than the header dropped instead of padded.
RECURSIVE CsvChunk_skipping(_, _, _, _)
CsvChunk_skipping(f, src, from, n) ==
    IF n = 0 \/ from > Len(src) THEN <<>>
    ELSE IF src[from] = "short" THEN CsvChunk_skipping(f, src, from + 1, n)
    ELSE <<Record(f, from, CsvRow(src[from], from))>>
         \o CsvChunk_skipping(f, src, from + 1, n - 1)

\* The rows of the chunk pandas yields from data line `from` on.
RECURSIVE CsvChunk(_, _, _, _)
CsvChunk(f, src, from, n) ==
    IF n = 0 \/ from > Len(src) THEN <<>>
    ELSE <<Record(f, from, CsvRow(src[from], from))>> \o CsvChunk(f, src, from + 1, n - 1)

\* read_csv(skiprows=k): the data lines before the first parsed one.
skiprows(src, p) == Min(p.skip_records, Len(src))

\* The result never consumed: the batch stays outstanding.
consume_pending(outstanding, batch) == outstanding

\* Result.consume() returning: the batch is no longer outstanding.
consume(outstanding, batch) == outstanding \ {batch}

\* ------------------------------------------------------------------ Init
\* The state when main has loaded the configuration, built the server and
\* entered pre_ingest.  An absent pre_ingest / post_ingest key is a list of
\* no statements.
Configs == [files : 0..MaxFiles]

Init ==
    /\ pc = "pre_ingest"
    /\ config \in Configs
    /\ statements \in 0..MaxStmts
    /\ stmt_i = 0
    /\ file_i = 0
    /\ file = NoFile
    /\ reader = "none"
    /\ params = NoParams
    /\ openfile = "NA"
    /\ raw = NoRaw
    /\ source = <<>>
    /\ rd = 0
    /\ rec_num = 0
    /\ rows = <<>>
    /\ inflight = {}
    /\ batches = <<>>
    /\ acked = 0
    /\ log = <<>>
    /\ history = <<>>

Logged(events) == log' = log \o events

\* The file at work: none (0) while the statement lists are run.
Current == IF pc \in {"pre_ingest", "post_ingest"} THEN 0 ELSE file_i

\* The exception caught around load_file, the loop going on.
Raise_caught(events, kind) ==
    /\ pc' = "files"
    /\ Logged(events \o <<Event(kind, Current, 0)>>)
    /\ UNCHANGED history

\* An exception nothing catches: it leaves the reader, load_file and main.
\* kind names it: "KeyError", "TransportError", "ParseError", "StoreError".
Raise(events, kind) ==
    /\ pc' = "aborted"
    /\ Logged(events \o <<Event(kind, Current, 0)>>)
    /\ UNCHANGED history

\* The locals of load_file and of the readers, gone when they have returned.
NoLocals ==
    /\ file' = NoFile
    /\ reader' = "none"
    /\ params' = NoParams
    /\ openfile' = "NA"
    /\ raw' = NoRaw
    /\ source' = <<>>
    /\ rd' = 0
    /\ rec_num' = 0
    /\ rows' = <<>>
    /\ batches' = <<>>
    /\ acked' = 0

\* ------------------------------------------------ pre_ingest / post_ingest
\* The failure of a statement printed and the list carried on with.
RunStatement_lenient(list, ok) ==
    /\ pc = list
    /\ stmt_i < statements
    /\ stmt_i' = stmt_i + 1
    /\ Logged(<<Event(list, 0, stmt_i + 1)>>
              \o IF ok THEN <<>> ELSE <<Event("StoreError", 0, 0)>>)
    /\ pc' = pc
    /\ UNCHANGED <<config, statements, file_i, file, reader, params, openfile, raw, source,
                   rd, rec_num, rows, inflight, batches, acked, history>>

\* One iteration of `for statement in statements: session.run(statement)`.
RunStatement(list, ok) ==
    /\ pc = list
    /\ stmt_i < statements
    /\ IF ok
       THEN /\ stmt_i' = stmt_i + 1
            /\ Logged(<<Event(list, 0, stmt_i + 1)>>)
            /\ pc' = pc
            /\ UNCHANGED history
       ELSE /\ Raise(<<Event(list, 0, stmt_i + 1)>>, "StoreError")
            /\ stmt_i' = stmt_i
    /\ UNCHANGED <<config, statements, file_i, file, reader, params, openfile, raw, source, rd,
                   rec_num, rows, inflight, batches, acked>>

PreIngestStatement == \E ok \in BOOLEAN : RunStatement("pre_ingest", ok)

PostIngestStatement == \E ok \in BOOLEAN : RunStatement("post_ingest", ok)

\* pre_ingest returns; main reads config['files'] and enters the loop.
PreIngestDone ==
    /\ pc = "pre_ingest"
    /\ stmt_i = statements
    /\ pc' = "files"
    /\ history' = Append(history, "pre_ingest")
    /\ UNCHANGED <<config, statements, stmt_i, file_i, file, reader, params, openfile, raw,
                   source, rd, rec_num, rows, inflight, batches, acked, log>>

\* post_ingest called without waiting for the end of the list.
FilesDone_early ==
    /\ pc = "files"
    /\ pc' = "post_ingest"
    /\ statements' \in 0..MaxStmts
    /\ stmt_i' = 0
    /\ log' = <<>>
    /\ NoLocals
    /\ UNCHANGED <<config, file_i, inflight, history>>

\* The loop over the files is exhausted; main calls post_ingest, which
\* reads config['post_ingest'].
FilesDone ==
    /\ pc = "files"
    /\ file_i = config.files
    /\ pc' = "post_ingest"
    /\ statements' \in 0..MaxStmts
    /\ stmt_i' = 0
    /\ log' = <<>>
    /\ NoLocals
    /\ UNCHANGED <<config, file_i, inflight, history>>

\* post_ingest returns; server.close().
PostIngestDone ==
    /\ pc = "post_ingest"
    /\ stmt_i = statements
    /\ pc' = "closed"
    /\ history' = Append(history, "post_ingest")
    /\ UNCHANGED <<config, statements, stmt_i, file_i, file, reader, params, openfile, raw,
                   source, rd, rec_num, rows, inflight, batches, acked, log>>

\* --------------------------------------------------------------- load_file
\* One iteration of main's loop: the next file of the list is handed to
\* load_file, which skips it, or calls the reader Dispatch selects.
LoadFile ==
    /\ pc = "files"
    /\ file_i < config.files
    /\ \E f \in FileSpecs :
        /\ file' = f
        /\ file_i' = file_i + 1
        /\ IF ~f.has_url
           THEN \* file['url'] raises KeyError
                /\ pc' = "aborted"
                /\ reader' = "none"
                /\ log' = <<Event("KeyError", file_i + 1, 0)>>
                /\ UNCHANGED history
           ELSE IF skip(f)
           THEN /\ pc' = "files"
                /\ reader' = "none"
                /\ log' = <<Event("skip", file_i + 1, 0)>>
                /\ history' = Append(history, "skipped")
           ELSE /\ reader' = Dispatch(f)
                /\ IF reader' = "csv"
                   THEN /\ pc' = "load_csv"
                        /\ log' = <<Event("reading", file_i + 1, 0)>>
                        /\ UNCHANGED history
                   ELSE IF reader' = "json"
                   THEN /\ pc' = "load_json"
                        /\ log' = <<Event("reading", file_i + 1, 0)>>
                        /\ UNCHANGED history
                   ELSE /\ pc' = "files"
                        /\ log' = <<Event("reading", file_i + 1, 0),
                                    Event("unknown type", file_i + 1, 0),
                                    Event("completed", file_i + 1, 0)>>
                        /\ history' = Append(history, "completed")
    /\ params' = NoParams
    /\ openfile' = "NA"
    /\ raw' = NoRaw
    /\ source' = <<>>
    /\ rd' = 0
    /\ rec_num' = 0
    /\ rows' = <<>>
    /\ batches' = <<>>
    /\ acked' = 0
    /\ UNCHANGED <<config, statements, stmt_i, inflight>>

\* A batch goes to session.run(cql, dict={'rows': rows}).
Submit(batch) ==
    /\ inflight' = inflight \cup {batch}
    /\ batches' = Append(batches, batch)
    /\ Logged(<<Event("run", file_i, Len(batches) + 1)>>)
    /\ UNCHANGED history

\* "Completed file": the reader and load_file return to main's loop.
Completed(events) ==
    /\ pc' = "files"
    /\ Logged(events \o <<Event("completed", file_i, 0)>>)
    /\ history' = Append(history, "completed")

\* The contents a stream can turn out to have.
Contents(kinds) == SeqsUpTo(kinds, MaxRecs)

\* The zip archives a stream can turn out to be: no entry, one entry, or
\* two entries of different names, in either order.
Archives(kinds) ==
    {<<>>}
    \cup {<<Entry(n, c)>> : n \in EntryNames, c \in Contents(kinds)}
    \cup UNION {{<<Entry(n, c), Entry(m, d)>> :
                    m \in EntryNames \ {n}, c \in Contents(kinds), d \in SeqsUpTo(kinds, 1)} :
                 n \in EntryNames}

\* -------------------------------------------------- load_json / load_csv
\* The session opened and the stream too, before get_params is called.
UntilGetParams_opened(f) == <<Event("session", f, 0), Event("open", f, 0)>>

\* What a reader has done when it calls get_params: the session is open.
UntilGetParams(f) == <<Event("session", f, 0)>>

\* The reader up to its loop: the session, get_params, file_handle and
\* the iterator over the stream (for load_csv also the header line and
\* read_csv).  get_params raises on a missing cql; file_handle raises when
\* the transport fails or the archive has no entry.
OpenReader(at, kinds, next) ==
    /\ pc = at
    /\ LET started == UntilGetParams(file_i) \o Report(get_params(file), file_i)
           opened == started \o <<Event("open", file_i, 0)>>
       IN  IF ~file.has_cql
           THEN \* file['cql'] raises KeyError in get_params
                /\ Raise(started, "KeyError")
                /\ UNCHANGED <<params, openfile, raw, source, rd>>
           ELSE /\ params' = get_params(file)
                /\ \/ /\ Raise(opened, "TransportError")
                      /\ UNCHANGED <<openfile, raw, source, rd>>
                   \/ \E scheme \in Schemes :
                        IF file_handle(params'.compression) = "zip"
                        THEN \E archive \in Archives(kinds) :
                              /\ raw' = [path |-> path(scheme),
                                         buffered |-> buffered(path(scheme)),
                                         archive |-> archive]
                              /\ IF archive = <<>>
                                 THEN \* infolist()[0] raises IndexError
                                      /\ Raise(opened, "IndexError")
                                      /\ UNCHANGED <<openfile, source, rd>>
                                 ELSE /\ openfile' = "zip"
                                      /\ source' = zf_open(archive,
                                                           infolist(archive)[1].filename)
                                      /\ rd' = IF at = "load_csv"
                                               THEN skiprows(source', params') ELSE 0
                                      /\ pc' = next
                                      /\ Logged(opened)
                                      /\ UNCHANGED history
                        ELSE \E content \in Contents(kinds) :
                              /\ raw' = [path |-> path(scheme), buffered |-> FALSE,
                                         archive |-> <<>>]
                              /\ openfile' = file_handle(params'.compression)
                              /\ source' = content
                              /\ rd' = IF at = "load_csv"
                                       THEN skiprows(content, params') ELSE 0
                              /\ pc' = next
                              /\ Logged(opened)
                              /\ UNCHANGED history
    /\ file' = NoFile
    /\ UNCHANGED <<config, statements, stmt_i, file_i, reader, rec_num, rows, inflight,
                   batches, acked>>

LoadJson == OpenReader("load_json", JsonKinds, "json_loop")

LoadCsv == OpenReader("load_csv", CsvKinds, "csv_iter")

\* One iteration of `while not halt`: next(items, None) and what follows,
\* up to the call of session.run when the chunk is full.  ijson raises on
\* a malformed token.
JsonNext ==
    /\ pc = "json_loop"
    /\ \/ /\ Raise(<<>>, "ParseError")
          /\ UNCHANGED <<rd, rec_num, rows, inflight, batches>>
       \/ /\ rd = Len(source)
          /\ pc' = "json_final"
          /\ UNCHANGED <<rd, rec_num, rows, inflight, batches, log, history>>
       \/ /\ rd < Len(source)
          /\ rd' = rd + 1
          /\ IF halt(NextRow(source[rd + 1], rd + 1))
             THEN /\ pc' = "json_final"
                  /\ UNCHANGED <<rec_num, rows, inflight, batches, log, history>>
             ELSE /\ rec_num' = rec_num + 1
                  /\ IF PastSkipped(rec_num', params)
                     THEN /\ rows' = append(rows, Record(file_i, rd + 1,
                                                        NextRow(source[rd + 1], rd + 1)))
                          /\ IF ChunkFull(rows', params)
                             THEN /\ Submit(rows')
                                  /\ pc' = "json_run"
                             ELSE /\ pc' = pc
                                  /\ UNCHANGED <<inflight, batches, log, history>>
                     ELSE /\ pc' = pc
                          /\ UNCHANGED <<rows, inflight, batches, log, history>>
    /\ UNCHANGED <<config, statements, stmt_i, file_i, file, reader, params, openfile, raw,
                   source, acked>>

\* The failure of a batch swallowed inside the loop, which goes on.
Consume_resume(at, next, ok) ==
    /\ pc = at
    /\ inflight' = consume(inflight, rows)
    /\ acked' = IF ok THEN acked + 1 ELSE acked
    /\ rows' = <<>>
    /\ LET event == Event(IF ok THEN "ack" ELSE "StoreError", file_i,
                          IF ok THEN Len(batches) ELSE 0)
       IN  IF next = "files"
           THEN Completed(<<event>>)
           ELSE /\ pc' = next
                /\ Logged(<<event>>)
                /\ UNCHANGED history
    /\ UNCHANGED <<config, statements, stmt_i, file_i, file, reader, params, openfile, raw,
                   source, rd, rec_num, batches>>

\* session.run(...).consume() of a batch returns or raises.
Consume(at, next, ok) ==
    /\ pc = at
    /\ IF ok
       THEN /\ inflight' = consume(inflight, rows)
            /\ acked' = acked + 1
            /\ rows' = <<>>
            /\ IF next = "files"
               THEN Completed(<<Event("ack", file_i, Len(batches))>>)
               ELSE /\ pc' = next
                    /\ Logged(<<Event("ack", file_i, Len(batches))>>)
                    /\ UNCHANGED history
       ELSE /\ Raise(<<>>, "StoreError")
            /\ inflight' = consume(inflight, rows)
            /\ UNCHANGED <<acked, rows>>
    /\ UNCHANGED <<config, statements, stmt_i, file_i, file, reader, params, openfile, raw,
                   source, rd, rec_num, batches>>

JsonConsume == \E ok \in BOOLEAN : Consume("json_run", "json_loop", ok)

\* The rows left after the loop submitted without the test of line 92.
JsonFinal_unguarded ==
    /\ pc = "json_final"
    /\ Submit(rows)
    /\ pc' = "json_last_run"
    /\ UNCHANGED <<config, statements, stmt_i, file_i, file, reader, params, openfile, raw,
                   source, rd, rec_num, rows, acked>>

\* After the loop: `if len(rows) > 0` the partial batch is submitted.
JsonFinal ==
    /\ pc = "json_final"
    /\ IF Len(rows) > 0
       THEN /\ Submit(rows)
            /\ pc' = "json_last_run"
       ELSE /\ Completed(<<>>)
            /\ UNCHANGED <<inflight, batches>>
    /\ UNCHANGED <<config, statements, stmt_i, file_i, file, reader, params, openfile, raw,
                   source, rd, rec_num, rows, acked>>

JsonLastConsume == \E ok \in BOOLEAN : Consume("json_last_run", "files", ok)

\* One iteration of `for i, rows in enumerate(row_chunks)` up to the call
\* of session.run; the loop ends when pandas has no line left.
CsvNext ==
    /\ pc = "csv_iter"
    /\ LET chunk == CsvChunk(file_i, source, rd + 1, params.chunk_size)
       IN  IF chunk = <<>>
           THEN /\ Completed(<<>>)
                /\ UNCHANGED <<rd, rows, inflight, batches>>
           ELSE /\ rows' = chunk
                /\ rd' = rd + Len(chunk)
                /\ Submit(chunk)
                /\ pc' = "csv_run"
    /\ UNCHANGED <<config, statements, stmt_i, file_i, file, reader, params, openfile, raw,
                   source, rec_num, acked>>

CsvConsume == \E ok \in BOOLEAN : Consume("csv_run", "csv_iter", ok)

\* ------------------------------------------------------------------ Next
Next ==
    \/ PreIngestStatement
    \/ PreIngestDone
    \/ LoadFile
    \/ LoadJson
    \/ LoadCsv
    \/ JsonNext
    \/ JsonConsume
    \/ JsonFinal
    \/ JsonLastConsume
    \/ CsvNext
    \/ CsvConsume
    \/ FilesDone
    \/ PostIngestStatement
    \/ PostIngestDone

Spec == Init /\ [][Next]_vars

TypeOK ==
    /\ pc \in {"pre_ingest", "files", "load_json", "load_csv", "json_loop", "json_run",
               "json_final", "json_last_run", "csv_iter", "csv_run", "post_ingest",
               "closed", "aborted"}
    /\ file_i \in 0..MaxFiles
    /\ rd \in 0..MaxRecs

\* ------------------------------------------------------------- properties
\* The calls of one kind logged for file f in the current phase.
Calls(op, f) == SelectSeq(log, LAMBDA e : e.op = op /\ e.f = f)

\* The current file has just run to its "Completed file" line.
FileCompleted == log # <<>> /\ Last(log) = Event("completed", file_i, 0) /\ file_i >= 1

\* The array holds objects only (the input of the JSON reader, spec 4.4).
AllObjects(src) == \A i \in 1..Len(src) : src[i] # "null"

Ceil(n, c) == (n + c - 1) \div c

\* The source positions of the rows of all submitted batches, in order.
Submitted == LET all == Concat(batches) IN [i \in 1..Len(all) |-> all[i].pos]

\* C1: load_json makes ceil(N/c) executor calls for an array of objects of
\* which N elements remain after skipping; every batch but the last has c
\* rows, the last has N mod c (c when that is 0), and no batch exceeds c.
C1_Batching ==
    reader = "json" =>
        /\ \A j \in 1..Len(batches) : Len(batches[j]) <= params.chunk_size
        /\ (FileCompleted /\ AllObjects(source)) =>
            LET c == params.chunk_size
                N == IF Len(source) > params.skip_records
                     THEN Len(source) - params.skip_records ELSE 0
            IN  /\ Len(Calls("run", file_i)) = Ceil(N, c)
                /\ Len(batches) = Ceil(N, c)
                /\ \A j \in 1..(Len(batches) - 1) : Len(batches[j]) = c
                /\ batches # <<>> =>
                      Len(Last(batches)) = IF N % c = 0 THEN c ELSE N % c

\* Three remaining elements in chunks of two: a full batch, then a partial one.
C1_Witness ==
    /\ reader = "json"
    /\ FileCompleted
    /\ AllObjects(source)
    /\ params.chunk_size = 2
    /\ Len(source) - params.skip_records = 3
    /\ Len(batches) = 2
    /\ Len(batches[2]) = 1

\* C2: with skip_records = k <= N the batches of a completed file hold,
\* concatenated, the source records k+1..N in order: the first k are
\* absent, nothing else is dropped, nothing is duplicated (JSON arrays of
\* objects and CSV data lines alike).
C2_SkipRecords ==
    (/\ FileCompleted
     /\ reader \in {"json", "csv"}
     /\ reader = "json" => AllObjects(source)
     /\ params.skip_records <= Len(source))
    => Submitted = [i \in 1..(Len(source) - params.skip_records) |->
                        params.skip_records + i]

\* The example of the spec: 3 elements, chunk_size 2, skip_records 1 give
\* one batch holding elements 2 and 3.
C2_Witness ==
    /\ FileCompleted
    /\ reader = "json"
    /\ source = <<"obj", "obj", "obj">>
    /\ params.chunk_size = 2
    /\ params.skip_records = 1
    /\ Len(batches) = 1
    /\ Submitted = <<2, 3>>

\* The outcomes of the files main has finished with, in order.
FilesFinished == SelectSeq(history, LAMBDA h : h \in {"skipped", "completed"})

\* C3: the rows of a batch are in source order; the batches of a file are
\* submitted in increasing source position and numbered 1, 2, ...; a batch
\* holds rows of the file being processed only; the files are taken in list
\* order, the next one only when the one before is finished and none of its
\* batches is outstanding, so no call for a file precedes one of an earlier
\* file.
C3_Ordering ==
    /\ [](/\ \A j \in 1..Len(batches) :
                /\ \A a \in 1..(Len(batches[j]) - 1) :
                      batches[j][a].pos < batches[j][a + 1].pos
                /\ \A a \in 1..Len(batches[j]) : batches[j][a].file = file_i
          /\ \A j \in 1..(Len(batches) - 1) :
                batches[j] # <<>> /\ batches[j + 1] # <<>>
                /\ Last(batches[j]).pos < Head(batches[j + 1]).pos
          /\ LET runs == SelectSeq(log, LAMBDA e : e.op = "run")
             IN  \A j \in 1..Len(runs) : runs[j].n = j
          /\ \A i \in 1..Len(log) : log[i].f \in {0, file_i}
          /\ Len(FilesFinished) \in {file_i - 1, file_i})
    /\ [][file_i' # file_i =>
            /\ file_i' = file_i + 1
            /\ pc = "files"
            /\ inflight = {}
            /\ Len(FilesFinished) = file_i]_vars

\* The second file of the list is in its second batch, the first file
\* being completed.
C3_Witness ==
    /\ file_i = 2
    /\ history = <<"pre_ingest", "completed">>
    /\ Len(batches) = 2
    /\ Len(batches[1]) = 2

\* The failures of a file that are no configuration error.
FileErrors == {"TransportError", "ParseError", "StoreError"}

\* C4 as claimed: a run in which a file failed with a transport, parse or
\* store error still hands every file of the list to load_file and runs
\* the post-ingest statements: it does not end on the failure.
C4_FileIsolation ==
    (/\ pc \in {"closed", "aborted"}
     /\ log # <<>>
     /\ Last(log).op \in FileErrors
     /\ Last(log).f >= 1)
    => /\ file_i = config.files
       /\ Len(FilesFinished) = config.files
       /\ history # <<>> /\ Last(history) = "post_ingest"

\* C4 as amended: a transport, parse or store error of file i leaves main:
\* it is the last thing the run does; no later file is opened, no batch is
\* submitted after it and no post-ingest statement is run.
C4_FailureEndsRun ==
    /\ [](\A i \in 1..Len(log) :
            (log[i].op \in FileErrors /\ log[i].f >= 1)
            => /\ i = Len(log)
               /\ pc = "aborted"
               /\ file_i = log[i].f
               /\ Len(FilesFinished) = file_i - 1
               /\ Last(history) # "post_ingest")
    /\ [][pc # "aborted"]_vars

\* The transport fails on a file that is not the last one of the list.
C4_Witness ==
    /\ pc = "aborted"
    /\ Last(log).op = "TransportError"
    /\ file_i >= 1
    /\ file_i < config.files

\* C5 as claimed: every value made from a JSON number token, at any depth
\* of any row of a submitted batch, is a primitive number, never a Decimal
\* and never a text string.
C5_NumbersArePrimitive ==
    reader = "json" =>
        \A j \in 1..Len(batches) : \A a \in 1..Len(batches[j]) :
            \A leaf \in Leaves(batches[j][a].val) : leaf.t \in {"int", "float"}

HasSuffix(f, x) == \E i \in 1..Len(f.suffixes) : f.suffixes[i] = x

\* C6 as claimed: a declared type csv or json selects that reader; otherwise
\* .json is tested before .csv; otherwise csv; exactly one reader is called
\* for a file that is not skipped.
C6_JsonBeforeCsv ==
    (file.has_url /\ ~file.skip_file) =>
        /\ reader \in {"csv", "json"}
        /\ file.type = "csv" => reader = "csv"
        /\ file.type = "json" => reader = "json"
        /\ (file.type \notin {"csv", "json"} /\ HasSuffix(file, ".json")) => reader = "json"
        /\ (file.type \notin {"csv", "json"} /\ ~HasSuffix(file, ".json")) => reader = "csv"

\* C6 as amended: a declared type csv or json selects that reader whatever
\* the url, any other declared type selects no reader; with no declared
\* type .csv is tested before .json, so a url with both suffixes goes to
\* the CSV reader; otherwise the CSV reader is used.  At most one reader
\* is called for a file that is not skipped.
C6_CsvBeforeJson ==
    (file.has_url /\ ~file.skip_file) =>
        /\ file.type = "csv" => reader = "csv"
        /\ file.type = "json" => reader = "json"
        /\ file.type \notin {"NA", "csv", "json"} => reader = "none"
        /\ (file.type = "NA" /\ HasSuffix(file, ".csv")) => reader = "csv"
        /\ (file.type = "NA" /\ ~HasSuffix(file, ".csv") /\ HasSuffix(file, ".json"))
              => reader = "json"
        /\ (file.type = "NA" /\ ~HasSuffix(file, ".csv") /\ ~HasSuffix(file, ".json"))
              => reader = "csv"
        /\ reader = "csv" => pc = "load_csv"
        /\ reader = "json" => pc = "load_json"
        /\ reader = "none" => (pc = "files" /\ Calls("session", file_i) = <<>>)

\* data.csv.json with no declared type has entered load_csv.
C6_Witness ==
    /\ file.has_url
    /\ ~file.skip_file
    /\ file.type = "NA"
    /\ file.suffixes = <<".csv", ".json">>
    /\ pc = "load_csv"

\* C7: a file with skip_file set (and the url load_file prints) gets no
\* transport call, no session, no executor call and no batch, whatever its
\* other keys; "Skipping this file" is all that is done for it and the run
\* is back in main's loop, at the next file.
C7_SkipFile ==
    (file.has_url /\ file.skip_file) =>
        /\ reader = "none"
        /\ batches = <<>>
        /\ inflight = {}
        /\ openfile = "NA"
        /\ raw = NoRaw
        /\ log = <<Event("skip", file_i, 0)>>
        /\ pc = "files"
        /\ Last(history) = "skipped"
        /\ Len(FilesFinished) = file_i

\* A zip-compressed JSON file is skipped and another file follows.
C7_Witness ==
    /\ file.has_url
    /\ file.skip_file
    /\ file.type = "json"
    /\ file.compression = "zip"
    /\ pc = "files"
    /\ file_i < config.files
    /\ Last(log) = Event("skip", file_i, 0)

\* C8: when the executor call for batch j of a file fails, the j-1 batches
\* before it stay acknowledged (nothing undoes them), and no further batch
\* of that file is submitted.
C8_StoreFailure ==
    \A i \in 1..Len(log) :
        (log[i].op = "StoreError" /\ log[i].f >= 1) =>
            LET acks == Calls("ack", file_i)
            IN  /\ \A k \in (i + 1)..Len(log) : log[k].op # "run"
                /\ Len(acks) = Len(batches) - 1
                /\ \A j \in 1..Len(acks) : acks[j].n = j
                /\ acked = Len(acks)
                /\ pc = "aborted"

\* The second batch of a file fails while lines of the file are unread.
C8_Witness ==
    /\ pc = "aborted"
    /\ Last(log).op = "StoreError"
    /\ Last(log).f >= 1
    /\ acked = 1
    /\ Len(batches) = 2
    /\ rd < Len(source)

\* The statements of a list run so far are its first ones, in list order.
InListOrder(list) ==
    LET calls == SelectSeq(log, LAMBDA e : e.op = list)
    IN  /\ Len(calls) \in {stmt_i, stmt_i + 1}
        /\ \A j \in 1..Len(calls) : calls[j].n = j /\ log[j] = calls[j]

\* C9: the pre-ingest statements are run in list order, all of them before
\* anything is done for a file, and none once a file has started; the
\* post-ingest statements are run in list order, only when every file of
\* the list has been completed or skipped.
C9_PrePostOrder ==
    /\ [](/\ pc = "pre_ingest" =>
                (history = <<>> /\ file_i = 0 /\ InListOrder("pre_ingest"))
          /\ (file_i >= 1 \/ pc = "post_ingest") =>
                (history # <<>> /\ history[1] = "pre_ingest")
          /\ \A i \in 2..Len(history) : history[i] # "pre_ingest"
          /\ file_i >= 1 =>
                \A i \in 1..Len(log) : log[i].op # "pre_ingest"
          /\ pc = "post_ingest" =>
                (/\ InListOrder("post_ingest")
                 /\ file_i = config.files
                 /\ Len(FilesFinished) = config.files
                 /\ inflight = {})
          /\ (\E i \in 1..Len(log) : log[i].op = "post_ingest") =>
                (/\ Len(FilesFinished) = config.files
                 /\ \A i \in 1..Len(log) : log[i].f = 0))
    /\ [][/\ (pc = "pre_ingest" /\ pc' = "files") => Len(log) = statements
          /\ (pc = "post_ingest" /\ pc' = "closed") => Len(log) = statements]_vars

\* A whole run: pre-ingest, two completed files, two post-ingest statements.
C9_Witness ==
    /\ pc = "closed"
    /\ history = <<"pre_ingest", "completed", "completed", "post_ingest">>
    /\ log = <<Event("post_ingest", 0, 1), Event("post_ingest", 0, 2)>>

\* C10: at most one batch is submitted and not yet acknowledged; batch j+1
\* of a file is submitted only after batch j was acknowledged; while a batch
\* is outstanding the reader pulls no record and submits nothing.
C10_SingleOutstanding ==
    /\ [](/\ Cardinality(inflight) <= 1
          /\ \A i \in 1..Len(log) :
                (log[i].op = "run" /\ log[i].n > 1) =>
                    \E k \in 1..(i - 1) : log[k] = Event("ack", log[i].f, log[i].n - 1))
    /\ [][inflight # {} => (rd' = rd /\ batches' = batches)]_vars

\* The second batch of a file is outstanding, the first one acknowledged.
C10_Witness ==
    /\ Cardinality(inflight) = 1
    /\ acked = 1
    /\ Len(batches) = 2

\* The (batch, row) indices of the submitted records read at source position p.
RecordsAt(p) ==
    {<<j, a>> \in (1..Len(batches)) \X (1..MaxRecs + 1) :
        a <= Len(batches[j]) /\ batches[j][a].pos = p}

\* C11 as claimed: no submitted batch of load_csv holds a Record made from
\* a data row with fewer fields than the header.
C11_ShortRowSkipped ==
    reader = "csv" =>
        \A j \in 1..Len(batches) : \A a \in 1..Len(batches[j]) :
            source[batches[j][a].pos] # "short"

\* C11 as amended: a data row with fewer fields than the header is not
\* skipped: it produces one Record, in its place, whose missing trailing
\* fields are the empty string; the rows after it are parsed and submitted
\* all the same.
C11_ShortRowPadded ==
    reader = "csv" =>
        /\ \A j \in 1..Len(batches) : \A a \in 1..Len(batches[j]) :
              LET rec == batches[j][a]
              IN  /\ rec.val = CsvRow(source[rec.pos], rec.pos)
                  /\ Len(rec.val.items) = 2
                  /\ source[rec.pos] = "short" =>
                        rec.val.items[2] = <<"name", PyVal("str", <<>>, "", <<>>)>>
        /\ FileCompleted =>
              \A p \in (params.skip_records + 1)..Len(source) :
                  Cardinality(RecordsAt(p)) = 1

\* A short line between two full ones: all three are submitted.
C11_Witness ==
    /\ reader = "csv"
    /\ FileCompleted
    /\ source = <<"ok", "short", "ok">>
    /\ params.chunk_size = 2
    /\ params.skip_records = 0
    /\ Submitted = <<1, 2, 3>>

\* get_params has returned for the current file: file_handle was called.
ParamsResolved == Calls("open", file_i) # <<>> /\ file_i >= 1

\* C12 as claimed: every parameter set get_params returns has
\* chunk_size >= 1, skip_records >= 0 and a compression among gzip, zip
\* and none.
C12_ResolvedParams ==
    ParamsResolved =>
        /\ params.chunk_size >= 1
        /\ params.skip_records >= 0
        /\ params.compression \in supported_compression_formats

\* C13: for a declared compression outside gzip, zip and none get_params
\* prints its report and raises nothing; file_handle then opens the stream
\* as it does for 'none', with no gzip and no zip wrapper and no archive
\* taken apart, and the batches of the file are the ones of an
\* uncompressed file: the records after the skipped ones, in order.
C13_UnsupportedCompression ==
    (ParamsResolved /\ params.compression \notin supported_compression_formats) =>
        /\ Calls("unsupported compression", file_i) = <<log[3]>>
        /\ log[4] = Event("open", file_i, 0)
        /\ \A i \in 1..Len(log) : log[i].op \notin {"KeyError", "IndexError"}
        /\ openfile # "NA" =>
              /\ openfile = file_handle("none")
              /\ openfile \notin {"gzip", "zip"}
              /\ raw.archive = <<>> /\ ~raw.buffered
        /\ (/\ FileCompleted
            /\ reader = "json" => AllObjects(source)
            /\ params.skip_records <= Len(source))
           => /\ Submitted = [i \in 1..(Len(source) - params.skip_records) |->
                                  params.skip_records + i]
              /\ acked = Len(batches)

\* A CSV file declared lz4 is completed, its lines submitted.
C13_Witness ==
    /\ FileCompleted
    /\ reader = "csv"
    /\ params.compression = "lz4"
    /\ openfile = "open"
    /\ Len(source) = 2
    /\ Submitted = <<1, 2>>

\* C14: a pre-ingest statement that fails ends the run there: it is the
\* last thing done; no file is opened, no batch of any file is submitted,
\* no post-ingest statement is run, and main reaches its loop over the
\* files only when no pre-ingest statement has failed.
C14_PreIngestFailure ==
    /\ [](history = <<>> =>
            /\ pc \in {"pre_ingest", "aborted"}
            /\ file_i = 0 /\ file = NoFile
            /\ openfile = "NA" /\ raw = NoRaw
            /\ batches = <<>> /\ inflight = {}
            /\ \A i \in 1..Len(log) :
                  /\ log[i].op \in {"pre_ingest", "StoreError"}
                  /\ log[i].op = "StoreError" =>
                        /\ i = Len(log)
                        /\ pc = "aborted"
                        /\ log[i - 1] = Event("pre_ingest", 0, stmt_i + 1)
            /\ pc = "aborted" => Last(log).op = "StoreError")
    /\ [][/\ (history = <<>> /\ pc = "aborted") => UNCHANGED vars
          /\ history' # history =>
                \A i \in 1..Len(log) : log[i].op # "StoreError"]_vars

\* The first of two pre-ingest statements has run, the second one fails,
\* and the files of the list are left untouched.
C14_Witness ==
    /\ pc = "aborted"
    /\ history = <<>>
    /\ statements = 2
    /\ stmt_i = 1
    /\ log = <<Event("pre_ingest", 0, 1), Event("pre_ingest", 0, 2),
               Event("StoreError", 0, 0)>>
    /\ config.files = 2
    /\ file_i = 0

\* C15: a file that is not skipped and lacks the url or the cql fails with
\* a KeyError before any I/O for it: file_handle is not called, nothing is
\* handed to the executor, and nothing is done for the file afterwards.
C15_ConfigurationError ==
    \A i \in 1..Len(log) :
        log[i].op = "KeyError" =>
            /\ i = Len(log)
            /\ log[i].f = file_i /\ file_i >= 1
            /\ pc = "aborted"
            /\ Calls("open", file_i) = <<>>
            /\ Calls("run", file_i) = <<>>
            /\ openfile = "NA" /\ raw = NoRaw /\ source = <<>>
            /\ batches = <<>> /\ inflight = {}
            /\ \/ log = <<log[i]>> /\ ~file.has_url /\ reader = "none"
               \/ /\ log = <<Event("reading", file_i, 0), Event("session", file_i, 0), log[i]>>
                  /\ reader \in {"csv", "json"}
                  /\ params = NoParams

\* A JSON file without cql: the session is entered, get_params raises.
C15_Witness ==
    /\ pc = "aborted"
    /\ reader = "json"
    /\ log = <<Event("reading", file_i, 0), Event("session", file_i, 0),
               Event("KeyError", file_i, 0)>>
    /\ file_i < config.files

\* C16: with zip compression the stream file_handle returns is the content
\* of the first entry of the archive's listing, whatever the names of the
\* entries, and of no other entry: what the reader reads and submits comes
\* from that entry alone.  The raw source is read in full into a buffer
\* exactly when it is the body of a stored object and not a path.
C16_ZipFirstEntry ==
    openfile = "zip" =>
        /\ params.compression = "zip"
        /\ raw.archive # <<>>
        /\ source = raw.archive[1].content
        /\ \A j \in 1..Len(batches) : \A a \in 1..Len(batches[j]) :
              LET rec == batches[j][a]
              IN  /\ rec.pos \in 1..Len(raw.archive[1].content)
                  /\ reader = "csv" =>
                        rec.val = CsvRow(raw.archive[1].content[rec.pos], rec.pos)
        /\ raw.buffered <=> raw.path = "Body"

\* The archive lists b.csv, then a.csv; it is the body of a stored
\* object; the file is completed with the two lines of b.csv submitted,
\* a.csv holding one line of another kind.
C16_Witness ==
    /\ openfile = "zip"
    /\ reader = "csv"
    /\ FileCompleted
    /\ raw.path = "Body"
    /\ raw.buffered
    /\ Len(raw.archive) = 2
    /\ raw.archive[1] = Entry("b.csv", <<"ok", "ok">>)
    /\ raw.archive[2] = Entry("a.csv", <<"short">>)
    /\ Submitted = <<1, 2>>
    /\ batches[1][1].val = CsvRow("ok", 1)

\* The position of the first null element of the array, one past its end
\* when it has none.
FirstNull(src) ==
    IF AllObjects(src) THEN Len(src) + 1
    ELSE CHOOSE m \in 1..Len(src) :
            src[m] = "null" /\ \A i \in 1..(m - 1) : src[i] # "null"

\* C17: load_json takes a null element of the top-level array for the end
\* of the stream: nothing is read past the first null, no element after it
\* is in any batch, the rows gathered before it are submitted, once, as a
\* last partial batch, and the file completes with no error.
C17_NullEndsStream ==
    reader = "json" =>
        LET m == FirstNull(source)
            k == params.skip_records
        IN  /\ rd <= m
            /\ \A j \in 1..Len(batches) : \A a \in 1..Len(batches[j]) :
                  batches[j][a].pos < m /\ batches[j][a].val # PyNone
            /\ \A a \in 1..Len(rows) : rows[a].pos < m
            /\ (FileCompleted /\ m <= Len(source)) =>
                  /\ rd = m
                  /\ Submitted = [i \in 1..(IF m - 1 > k THEN m - 1 - k ELSE 0) |-> k + i]
                  /\ acked = Len(batches)
                  /\ \A i \in 1..Len(log) :
                        log[i].op \in {"reading", "session", "unsupported compression",
                                       "open", "run", "ack", "completed"}

\* An object, a null, an object: one batch holding the first object; the
\* third element is never read.
C17_Witness ==
    /\ reader = "json"
    /\ FileCompleted
    /\ source = <<"obj", "null", "obj">>
    /\ params.chunk_size = 2
    /\ params.skip_records = 0
    /\ rd = 2
    /\ Len(batches) = 1
    /\ Submitted = <<1>>

\* C18: load_json never hands an empty batch to the executor: every batch
\* submitted or outstanding holds between 1 and chunk_size records, and a
\* file whose skip_records is at least the number of its elements (an
\* empty array included) completes with no executor call at all.
C18_NoEmptyBatch ==
    reader = "json" =>
        /\ \A j \in 1..Len(batches) :
              Len(batches[j]) >= 1 /\ Len(batches[j]) <= params.chunk_size
        /\ \A b \in inflight : b # <<>>
        /\ Len(Calls("run", file_i)) = Len(batches)
        /\ (FileCompleted /\ params.skip_records >= Len(source)) =>
              /\ batches = <<>>
              /\ Calls("run", file_i) = <<>>
              /\ acked = 0

\* Two elements, both skipped: the file is completed and nothing was
\* submitted.
C18_Witness ==
    /\ reader = "json"
    /\ FileCompleted
    /\ source = <<"obj", "obj">>
    /\ params.skip_records = 2
    /\ rd = 2
    /\ rec_num = 2
    /\ batches = <<>>
    /\ Calls("run", file_i) = <<>>

\* load_file has been given a file, not skipped, of a type it does not know.
UnknownType == file.has_url /\ ~file.skip_file /\ file.type \notin {"NA", "csv", "json"}

\* C19: a file that is not skipped and declares a type other than csv and
\* json is given to no reader: load_file prints its error, makes no
\* transport call and no executor call, raises nothing and reports the
\* file completed; main's loop then goes on with the next file of the
\* list, or with post_ingest after the last one.
C19_UnknownType ==
    /\ [](UnknownType =>
            /\ reader = "none"
            /\ pc = "files"
            /\ log = <<Event("reading", file_i, 0), Event("unknown type", file_i, 0),
                       Event("completed", file_i, 0)>>
            /\ openfile = "NA" /\ raw = NoRaw /\ source = <<>>
            /\ batches = <<>> /\ inflight = {}
            /\ Last(history) = "completed"
            /\ Len(FilesFinished) = file_i)
    /\ [][UnknownType =>
            \/ file_i < config.files /\ file_i' = file_i + 1
            \/ file_i = config.files /\ pc' = "post_ingest"]_vars

\* The first of two files declares type xml: it is reported completed and
\* the second file is next.
C19_Witness ==
    /\ UnknownType
    /\ file.type = "xml"
    /\ file_i = 1
    /\ config.files = 2
    /\ pc = "files"
    /\ history = <<"pre_ingest", "completed">>
    /\ ENABLED LoadFile

====
